---- MODULE Spec2Model ----
(***************************************************************************)
(* A model of the weather web application (ksuarz/weather).                *)
(*                                                                         *)
(* src/weather.go is the current program; src/unnamed/part_000 is the      *)
(* earlier wall-clock variant of the same program and the first program    *)
(* of src/unnamed/part_001 the day/night-flag variant.                     *)
(*                                                                         *)
(* Representation choices:                                                 *)
(*   - float64 temperatures are fixed-point integers in hundredths of a    *)
(*     degree (16.2 is 1620, 273.15 is 27315); every temperature the       *)
(*     model draws has at most two decimals, so the arithmetic is exact;   *)
(*   - strings are TLA+ strings, + is \o;                                  *)
(*   - time.Unix(t, 0).Hour() is taken in UTC;                             *)
(*   - the weather API answers in the unit the request asks for:           *)
(*     Celsius when the query carries units=metric, Kelvin otherwise.      *)
(***************************************************************************)
EXTENDS Integers, Sequences, FiniteSets, TLC

VARIABLES
    alive,      \* the server process is running (log.Fatal ends it)
    pc,         \* position of the request being handled
    findReq,    \* the request handleWeather sent to the find endpoint
    histReq,    \* the request getComparison sent to the history endpoint
    data,       \* handleWeather's data.List
    datum,      \* handleWeather's datum
    hist,       \* getComparison's data.List
    clock,      \* time.Now().Hour() as read by getComparison (part_000)
    lastLog,    \* the last line getComparison logged
    response,   \* what the handler wrote to the http.ResponseWriter
    arg,        \* argument of a direct call of a description function
    ret,        \* result of that call
    path,       \* r.URL.Path of the request being handled
    city,       \* handleWeather's city
    templates,  \* the package-level template set
    parked      \* the locals of the other request's goroutine (SpecConc)

vars == <<alive, pc, findReq, histReq, data, datum, hist, clock, lastLog,
          response, arg, ret, path, city, templates, parked>>

-----------------------------------------------------------------------------
(* Bounds of the model *)

\* longest condition list an observation carries
MaxConds == 2

\* longest history list the history endpoint answers with
MaxHist == 2

-----------------------------------------------------------------------------
(* Numbers *)

\* hundredths per degree: the fixed-point scale of a float64 temperature
Scale == 100

\* 273.15, the Kelvin offset
KelvinOffset == 27315

\* 86400 seconds: 24 hours
SecondsPerDay == 86400

Floor(x) == (x \div Scale) * Scale

Hour(t) == (t % SecondsPerDay) \div 3600

\* the comparison turned round: the larger of the two
minLarger(x, y) == IF x > y THEN x ELSE y

min(x, y) == IF x < y THEN x ELSE y

-----------------------------------------------------------------------------
(* Types *)

WeatherDesc(id, description, icon) ==
    [Id |-> id, Type |-> "", Description |-> description, Icon |-> icon]

ZeroWeatherData ==
    [Name |-> "", CityId |-> 0, Time |-> 0, Weather |-> <<>>,
     Sys |-> [Country |-> "", Sunrise |-> 0, Sunset |-> 0],
     Wind |-> [Speed |-> 0],
     Main |-> [Temperature |-> 0, Humidity |-> 0, Pressure |-> 0],
     MainIcon |-> "", Comparison |-> "", FullDescription |-> ""]

NoRequest == [endpoint |-> "", units |-> ""]

NoResponse == [kind |-> "", target |-> "", code |-> 0, data |-> ZeroWeatherData]

-----------------------------------------------------------------------------
(* getWeatherDescription *)

getWeatherDescriptionNo314(weather) ==
    CASE weather.Id \in {200, 230} -> "thunderstorms with light rain"
      [] weather.Id \in {201, 231} -> "thunderstorms with rain"
      [] weather.Id \in {202, 232} -> "thunderstorms with heavy rain"
      [] weather.Id = 210 -> "light thunderstorms"
      [] weather.Id = 211 -> "thunderstorms"
      [] weather.Id = 212 -> "heavy thunderstorms"
      [] weather.Id = 221 -> "ragged thunderstorms"
      [] weather.Id \in {300, 310} -> "light drizzle"
      [] weather.Id \in {301, 311} -> "drizzling rain"
      [] weather.Id \in {302, 312} -> "heavy drizzle"
      [] weather.Id \in {313, 321} -> "showers"
      [] weather.Id \in {502, 521} -> "heavy rain"
      [] weather.Id \in {520, 522} -> "light showers"
      [] weather.Id = 531 -> "ragged showers"
      [] weather.Id = 620 -> "light rain and snow"
      [] weather.Id = 621 -> "rain and snow"
      [] weather.Id = 622 -> "heavy rain and snow"
      [] weather.Id = 731 -> "sand and dust whirls"
      [] weather.Id = 781 -> "tornadoes"
      [] weather.Id = 800 -> "clear skies"
      [] weather.Id = 801 -> "a few clouds"
      [] weather.Id = 803 -> "some broken clouds"
      [] weather.Id = 804 -> "overcast skies"
      [] weather.Id = 900 -> "tornadoes"
      [] weather.Id = 901 -> "tropical storms"
      [] weather.Id \in {902, 962} -> "hurricane conditions"
      [] weather.Id = 903 -> "extreme cold"
      [] weather.Id = 904 -> "extreme heat"
      [] weather.Id = 905 -> "extreme winds"
      [] weather.Id = 906 -> "extreme hail"
      [] weather.Id = 951 -> "calm weather"
      [] weather.Id = 952 -> "light breezes"
      [] weather.Id = 953 -> "gentle breezes"
      [] weather.Id = 954 -> "moderate breezes"
      [] weather.Id = 955 -> "fresh breezes"
      [] weather.Id = 956 -> "strong breezes"
      [] weather.Id = 958 -> "windy, gale-like conditions"
      [] weather.Id = 959 -> "severe gales"
      [] weather.Id = 960 -> "storms"
      [] weather.Id = 961 -> "violent storms"
      [] OTHER -> weather.Description

getWeatherDescription(weather) ==
    CASE weather.Id \in {200, 230} -> "thunderstorms with light rain"
      [] weather.Id \in {201, 231} -> "thunderstorms with rain"
      [] weather.Id \in {202, 232} -> "thunderstorms with heavy rain"
      [] weather.Id = 210 -> "light thunderstorms"
      [] weather.Id = 211 -> "thunderstorms"
      [] weather.Id = 212 -> "heavy thunderstorms"
      [] weather.Id = 221 -> "ragged thunderstorms"
      [] weather.Id \in {300, 310} -> "light drizzle"
      [] weather.Id \in {301, 311} -> "drizzling rain"
      [] weather.Id \in {302, 312} -> "heavy drizzle"
      [] weather.Id \in {313, 321} -> "showers"
      [] weather.Id \in {502, 314, 521} -> "heavy rain"
      [] weather.Id \in {520, 522} -> "light showers"
      [] weather.Id = 531 -> "ragged showers"
      [] weather.Id = 620 -> "light rain and snow"
      [] weather.Id = 621 -> "rain and snow"
      [] weather.Id = 622 -> "heavy rain and snow"
      [] weather.Id = 731 -> "sand and dust whirls"
      [] weather.Id = 781 -> "tornadoes"
      [] weather.Id = 800 -> "clear skies"
      [] weather.Id = 801 -> "a few clouds"
      [] weather.Id = 803 -> "some broken clouds"
      [] weather.Id = 804 -> "overcast skies"
      [] weather.Id = 900 -> "tornadoes"
      [] weather.Id = 901 -> "tropical storms"
      [] weather.Id \in {902, 962} -> "hurricane conditions"
      [] weather.Id = 903 -> "extreme cold"
      [] weather.Id = 904 -> "extreme heat"
      [] weather.Id = 905 -> "extreme winds"
      [] weather.Id = 906 -> "extreme hail"
      [] weather.Id = 951 -> "calm weather"
      [] weather.Id = 952 -> "light breezes"
      [] weather.Id = 953 -> "gentle breezes"
      [] weather.Id = 954 -> "moderate breezes"
      [] weather.Id = 955 -> "fresh breezes"
      [] weather.Id = 956 -> "strong breezes"
      [] weather.Id = 958 -> "windy, gale-like conditions"
      [] weather.Id = 959 -> "severe gales"
      [] weather.Id = 960 -> "storms"
      [] weather.Id = 961 -> "violent storms"
      [] OTHER -> weather.Description

-----------------------------------------------------------------------------
(* getFullWeatherDescription *)

\* strings.Join(elems, sep)
RECURSIVE Join(_, _)
Join(elems, sep) ==
    IF Len(elems) = 0 THEN ""
    ELSE IF Len(elems) = 1 THEN elems[1]
    ELSE elems[1] \o sep \o Join(Tail(elems), sep)

\* the descs slice filled by the loop
Descs(weather) == [i \in 1..Len(weather) |-> getWeatherDescription(weather[i])]

\* descs[:len(descs)-1] panics on an empty slice (slice bounds out of range)
FullDescriptionPanics(weather) == Len(weather) = 0

getFullWeatherDescriptionCommaOnly(weather) == Join(Descs(weather), ", ")

getFullWeatherDescription(weather) ==
    LET descs == Descs(weather)
    IN  IF Len(descs) = 1 THEN descs[1]
        ELSE Join(SubSeq(descs, 1, Len(descs) - 1), ", ")
                 \o " and " \o descs[Len(descs)]

-----------------------------------------------------------------------------
(* getComparison: framing, difference, bands (src/weather.go) *)

\* hour buckets of the timestamp variant, with the evening bound off by one
FlavorLateEvening(hour) ==
    IF hour >= 21 \/ hour < 5 THEN [today |-> "Tonight", yesterday |-> "last night"]
    ELSE IF hour >= 5 /\ hour < 12 THEN [today |-> "Today", yesterday |-> "yesterday"]
    ELSE IF hour >= 12 /\ hour < 18
         THEN [today |-> "This afternoon", yesterday |-> "yesterday"]
    ELSE [today |-> "This evening", yesterday |-> "last night"]

Flavor(hour) ==
    IF hour >= 22 \/ hour < 5 THEN [today |-> "Tonight", yesterday |-> "last night"]
    ELSE IF hour >= 5 /\ hour < 12 THEN [today |-> "Today", yesterday |-> "yesterday"]
    ELSE IF hour >= 12 /\ hour < 18
         THEN [today |-> "This afternoon", yesterday |-> "yesterday"]
    ELSE [today |-> "This evening", yesterday |-> "last night"]

\* the difference without the Kelvin offset
DiffNoOffset(todayTemp, yesterdayTemp) == todayTemp - yesterdayTemp

\* var diff float64 = todayData.Main.Temperature - datum.Main.Temperature + 273.15
Diff(todayTemp, yesterdayTemp) == todayTemp - yesterdayTemp + KelvinOffset

\* the bands with closed upper edges (<= for <)
ComparisonSentenceClosed(diff, today, yesterday) ==
    IF diff <= -500 THEN today \o " is much cooler than " \o yesterday \o "."
    ELSE IF diff <= -250 THEN today \o " is cooler than " \o yesterday \o "."
    ELSE IF diff <= -100 THEN today \o " is slightly cooler than " \o yesterday \o "."
    ELSE IF diff <= 100 THEN today \o "'s temperature is similar to " \o yesterday \o "."
    ELSE IF diff <= 250 THEN today \o " is slightly warmer than " \o yesterday \o "."
    ELSE IF diff <= 500 THEN today \o " is warmer than " \o yesterday \o "."
    ELSE today \o " is much warmer than " \o yesterday \o "."

ComparisonSentence(diff, today, yesterday) ==
    IF diff < -500 THEN today \o " is much cooler than " \o yesterday \o "."
    ELSE IF diff < -250 THEN today \o " is cooler than " \o yesterday \o "."
    ELSE IF diff < -100 THEN today \o " is slightly cooler than " \o yesterday \o "."
    ELSE IF diff < 100 THEN today \o "'s temperature is similar to " \o yesterday \o "."
    ELSE IF diff < 250 THEN today \o " is slightly warmer than " \o yesterday \o "."
    ELSE IF diff < 500 THEN today \o " is warmer than " \o yesterday \o "."
    ELSE today \o " is much warmer than " \o yesterday \o "."

\* the sentence computed from today's temperature already rounded for display
ComparisonRounded(todayData, list) ==
    LET d == list[1]
        f == Flavor(Hour(todayData.Time))
    IN  ComparisonSentence(Diff(Floor(todayData.Main.Temperature + 50),
                                d.Main.Temperature),
                           f.today, f.yesterday)

\* lines 271-319 of getComparison: the sentence for today's datum and the
\* first history entry
Comparison(todayData, list) ==
    LET d == list[1]
        f == Flavor(Hour(todayData.Time))
    IN  ComparisonSentence(Diff(todayData.Main.Temperature, d.Main.Temperature),
                           f.today, f.yesterday)

-----------------------------------------------------------------------------
(* The weather API, as the environment of the program *)

\* the unit the API answers in
UnitOf(req) == IF req.units = "metric" THEN "C" ELSE "K"

InUnit(celsius, unit) == IF unit = "K" THEN celsius + KelvinOffset ELSE celsius

ToCelsius(temp, unit) == IF unit = "K" THEN temp - KelvinOffset ELSE temp

\* yesterday's temperatures, in Celsius: 10.0 and 20.0
YesterdayCelsius == {1000, 2000}

\* the band edges of the comparison, as differences
BandEdges == {-500, -250, -100, 100, 250, 500}

\* today's temperatures, in Celsius: every band edge against 10.0 and the
\* value just below it, and 20, 30, 16.2, 15.5, 15.49, 10.6, -0.5, -1.5, -1.51
TodayCelsius ==
    {1000 + e - b : e \in BandEdges, b \in {0, 1}}
        \cup {2000, 3000, 1620, 1550, 1549, 1060, -50, -150, -151}

\* observation times: one per hour of one UTC day, the last second of the
\* hour before each bucket change and the first second otherwise
Times ==
    {1382400000 + h * 3600 + (IF h \in {4, 11, 17, 21} THEN 3599 ELSE 0) : h \in 0..23}

\* sequences over S of length 0..n
RECURSIVE SeqsUpTo(_, _)
SeqsUpTo(S, n) ==
    IF n = 0 THEN {<<>>}
    ELSE LET shorter == SeqsUpTo(S, n - 1)
         IN  shorter \cup {Append(s, x) : s \in shorter, x \in S}

\* the conditions of the observations the handler is given
HandlerConds == {WeatherDesc(800, "sky is clear", "01d"),
                 WeatherDesc(500, "light rain", "10n")}

Observation(temp, time, weather) ==
    [Name |-> "London", CityId |-> 2643743, Time |-> time, Weather |-> weather,
     Sys |-> [Country |-> "GB", Sunrise |-> 1382423000, Sunset |-> 1382460000],
     Wind |-> [Speed |-> 410],
     Main |-> [Temperature |-> temp, Humidity |-> 81, Pressure |-> 1012],
     MainIcon |-> "", Comparison |-> "", FullDescription |-> ""]

\* what the find endpoint may answer to req: no city, or one observation
FindLists(req) ==
    {<<>>} \cup
    {<<Observation(InUnit(c, UnitOf(req)), t, w)>> :
        c \in TodayCelsius, t \in Times, w \in SeqsUpTo(HandlerConds, MaxConds)}

\* what the history endpoint may answer to req
HistoryLists(req) ==
    SeqsUpTo({Observation(InUnit(c, UnitOf(req)), 0, <<>>) : c \in YesterdayCelsius},
             MaxHist)

-----------------------------------------------------------------------------
(* handleWeather and getComparison of src/weather.go, statement by statement *)

\* template.Must(template.ParseFiles("index.html", "weather.html", "notfound.html"))
ParsedTemplates == {"index.html", "weather.html", "notfound.html"}

\* the characters of the class [a-zA-Z0-9 ,]
CityChars ==
    LET class == "abcdefghijklmnopqrstuvwxyzABCDEFGHIJKLMNOPQRSTUVWXYZ0123456789 ,"
    IN  {SubSeq(class, i, i) : i \in 1..Len(class)}

\* validPath.FindStringSubmatch(p) for "^/(weather)/([a-zA-Z0-9 ,]+)$":
\* <<>> for nil, else <<whole match, "weather", city>>
FindStringSubmatch(p) ==
    LET prefix == "/weather/"
        n == Len(prefix)
    IN  IF /\ Len(p) > n
           /\ SubSeq(p, 1, n) = prefix
           /\ \A i \in (n + 1)..Len(p) : SubSeq(p, i, i) \in CityChars
        THEN <<p, "weather", SubSeq(p, n + 1, Len(p))>>
        ELSE <<>>

\* getCity: the city, and whether it returned an error
getCity(p) ==
    LET m == FindStringSubmatch(p)
    IN  IF m = <<>> THEN [city |-> "", err |-> TRUE]
        ELSE [city |-> m[3], err |-> FALSE]

\* the URL paths of the requests routed to handleWeather ("/weather/" prefix)
Paths == {"/weather/London", "/weather/", "/weather/Sao_Paulo", "/weather/a/b"}

\* the locals of a handler that has not started
IdleLocals ==
    [pc |-> "idle", findReq |-> NoRequest, histReq |-> NoRequest, data |-> <<>>,
     datum |-> ZeroWeatherData, hist |-> <<>>, clock |-> 0, lastLog |-> "",
     response |-> NoResponse, path |-> "", city |-> ""]

Init ==
    /\ alive = TRUE
    /\ pc = "idle"
    /\ findReq = NoRequest
    /\ histReq = NoRequest
    /\ data = <<>>
    /\ datum = ZeroWeatherData
    /\ hist = <<>>
    /\ clock = 0
    /\ lastLog = ""
    /\ response = NoResponse
    /\ arg = <<>>
    /\ ret = ""
    /\ path = ""
    /\ city = ""
    /\ templates = ParsedTemplates
    /\ parked = IdleLocals

Redirect(target) ==
    [kind |-> "redirect", target |-> target, code |-> 404, data |-> ZeroWeatherData]

\* log.Fatal: the process exits
Fatal ==
    /\ alive' = FALSE
    /\ UNCHANGED <<pc, findReq, histReq, data, datum, hist, clock, lastLog,
                   response, arg, path, city, templates, parked, ret>>

\* getCity and the check of its error, with the return after the redirect
\* left out
GetCityNoReturn ==
    /\ alive /\ pc = "idle"
    /\ \E p \in Paths :
          /\ path' = p
          /\ city' = getCity(p).city
          /\ pc' = "query"
          /\ IF getCity(p).err
             THEN response' = Redirect("/notfound.html")
             ELSE UNCHANGED response
    /\ UNCHANGED <<alive, findReq, histReq, data, datum, hist, clock, lastLog,
                   arg, templates, parked, ret>>

\* getCity and the check of its error: an invalid path is redirected
GetCity ==
    /\ alive /\ pc = "idle"
    /\ \E p \in Paths :
          /\ path' = p
          /\ city' = getCity(p).city
          /\ IF getCity(p).err
             THEN /\ response' = Redirect("/notfound.html")
                  /\ pc' = "done"
             ELSE /\ pc' = "query"
                  /\ UNCHANGED response
    /\ UNCHANGED <<alive, findReq, histReq, data, datum, hist, clock, lastLog,
                   arg, templates, parked, ret>>

\* http.Get of the find endpoint, with units=metric
QueryToday ==
    /\ alive /\ pc = "query"
    /\ findReq' = [endpoint |-> "find", units |-> "metric"]
    /\ \E ok \in BOOLEAN :
          IF ok
          THEN /\ pc' = "read"
               /\ UNCHANGED alive
          ELSE /\ alive' = FALSE
               /\ UNCHANGED pc
    /\ UNCHANGED <<histReq, data, datum, hist, clock, lastLog, response, arg, path, city, templates, parked, ret>>

\* ioutil.ReadAll of the find response
ReadToday ==
    /\ alive /\ pc = "read"
    /\ \/ /\ pc' = "unmarshal"
          /\ UNCHANGED <<alive, findReq, histReq, data, datum, hist, clock,
                         lastLog, response, arg, path, city, templates, parked, ret>>
       \/ Fatal

\* json.Unmarshal of the find response into data
UnmarshalToday ==
    /\ alive /\ pc = "unmarshal"
    /\ \/ \E list \in FindLists(findReq) :
             /\ data' = list
             /\ pc' = "check"
             /\ UNCHANGED <<alive, findReq, histReq, datum, hist, clock,
                            lastLog, response, arg, path, city, templates, parked, ret>>
       \/ Fatal

\* the empty-list check, and var datum WeatherData = data.List[0]
CheckList ==
    /\ alive /\ pc = "check"
    /\ IF Len(data) = 0
       THEN /\ response' = Redirect("/notfound.html")
            /\ pc' = "done"
            /\ UNCHANGED datum
       ELSE /\ datum' = data[1]
            /\ pc' = "histQuery"
            /\ UNCHANGED response
    /\ UNCHANGED <<alive, findReq, histReq, data, hist, clock, lastLog, arg, path, city, templates, parked, ret>>

\* getComparison returns s: datum.Comparison = s
ReturnComparison(s, logged) ==
    /\ datum' = [datum EXCEPT !.Comparison = s]
    /\ lastLog' = logged
    /\ pc' = "round"

\* the same step ending the process, as the find request's failure does
QueryHistoryFatal ==
    /\ alive /\ pc = "histQuery"
    /\ histReq' = [endpoint |-> "history", units |-> ""]
    /\ \/ /\ pc' = "histRead"
          /\ UNCHANGED alive
       \/ /\ alive' = FALSE
          /\ UNCHANGED pc
    /\ UNCHANGED <<datum, lastLog, findReq, data, hist, clock, response, arg, path, city, templates, parked, ret>>

\* getComparison: http.Get of the history endpoint (no units parameter)
QueryHistory ==
    /\ alive /\ pc = "histQuery"
    /\ histReq' = [endpoint |-> "history", units |-> ""]
    /\ \/ /\ pc' = "histRead"
          /\ UNCHANGED <<datum, lastLog>>
       \/ ReturnComparison("", "Couldn't get yesterday's data - querying failed.")
    /\ UNCHANGED <<alive, findReq, data, hist, clock, response, arg, path, city, templates, parked, ret>>

\* getComparison: ioutil.ReadAll of the history response
ReadHistory ==
    /\ alive /\ pc = "histRead"
    /\ \/ /\ pc' = "histUnmarshal"
          /\ UNCHANGED <<datum, lastLog>>
       \/ ReturnComparison("", "Couldn't get yesterday's data - reading JSON failed.")
    /\ UNCHANGED <<alive, findReq, histReq, data, hist, clock, response, arg, path, city, templates, parked, ret>>

\* getComparison: json.Unmarshal of the history response and the empty check
UnmarshalHistory ==
    /\ alive /\ pc = "histUnmarshal"
    /\ \/ /\ ReturnComparison("", "Couldn't get yesterday's data - unmarshaling failed.")
          /\ UNCHANGED hist
       \/ \E list \in HistoryLists(histReq) :
             /\ hist' = list
             /\ IF Len(list) = 0
                THEN ReturnComparison("", "API response found no data for yesterday :(")
                ELSE /\ pc' = "compare"
                     /\ UNCHANGED <<datum, lastLog>>
    /\ UNCHANGED <<alive, findReq, histReq, data, clock, response, arg, path, city, templates, parked, ret>>

\* getComparison: the framing, the difference and the band
Compare ==
    /\ alive /\ pc = "compare"
    /\ ReturnComparison(Comparison(datum, hist),
                        "Detected temperature difference from yesterday")
    /\ UNCHANGED <<alive, findReq, histReq, data, hist, clock, response, arg, path, city, templates, parked, ret>>

\* the rounding that also clears the pressure
RoundedWrong(d) ==
    [d EXCEPT !.Main = [Temperature |-> Floor(d.Main.Temperature + 50),
                        Humidity |-> d.Main.Humidity, Pressure |-> 0]]

\* round-half-to-even (math.RoundToEven) instead of floor(t + 0.5)
RoundedHalfEven(d) ==
    LET t == d.Main.Temperature
        up == Floor(t + 50)
    IN  [d EXCEPT !.Main.Temperature =
            IF t % Scale = 50 /\ (up \div Scale) % 2 = 1 THEN up - Scale ELSE up]

\* datum.Main.Temperature = math.Floor(datum.Main.Temperature + 0.5)
Rounded(d) == [d EXCEPT !.Main.Temperature = Floor(d.Main.Temperature + 50)]

RoundTemperature ==
    /\ alive /\ pc = "round"
    /\ datum' = Rounded(datum)
    /\ pc' = "describe"
    /\ UNCHANGED <<alive, findReq, histReq, data, hist, clock, lastLog,
                   response, arg, path, city, templates, parked, ret>>

\* datum.FullDescription = getFullWeatherDescription(datum.Weather); a panic
\* ends the handler, net/http recovers it and the server goes on
Describe ==
    /\ alive /\ pc = "describe"
    /\ IF FullDescriptionPanics(datum.Weather)
       THEN /\ pc' = "panicked"
            /\ UNCHANGED datum
       ELSE /\ datum' = [datum EXCEPT
                           !.FullDescription = getFullWeatherDescription(datum.Weather)]
            /\ pc' = "render"
    /\ UNCHANGED <<alive, findReq, histReq, data, hist, clock, lastLog,
                   response, arg, path, city, templates, parked, ret>>

\* renderTemplate(w, "weather", datum); an ExecuteTemplate error is fatal
Render ==
    /\ alive /\ pc = "render"
    /\ \/ /\ "weather.html" \in templates
          /\ response' = [kind |-> "page", target |-> "weather", code |-> 200,
                          data |-> datum]
          /\ pc' = "done"
          /\ UNCHANGED alive
       \/ /\ response' = [kind |-> "error", target |-> "", code |-> 500,
                          data |-> ZeroWeatherData]
          /\ alive' = FALSE
          /\ UNCHANGED pc
    /\ UNCHANGED <<findReq, histReq, data, datum, hist, clock, lastLog, arg, path, city, templates, parked, ret>>

\* the handler has returned; the server takes the next request
Finish ==
    /\ alive /\ pc \in {"done", "panicked"}
    /\ pc' = "idle"
    /\ findReq' = NoRequest
    /\ histReq' = NoRequest
    /\ data' = <<>>
    /\ datum' = ZeroWeatherData
    /\ hist' = <<>>
    /\ clock' = 0
    /\ lastLog' = ""
    /\ response' = NoResponse
    /\ path' = ""
    /\ city' = ""
    /\ UNCHANGED <<alive, arg, templates, parked, ret>>

Next ==
    \/ GetCity
    \/ QueryToday
    \/ ReadToday
    \/ UnmarshalToday
    \/ CheckList
    \/ QueryHistory
    \/ ReadHistory
    \/ UnmarshalHistory
    \/ Compare
    \/ RoundTemperature
    \/ Describe
    \/ Render
    \/ Finish

Spec == Init /\ [][Next]_vars

-----------------------------------------------------------------------------
(* Properties of handleWeather and getComparison (src/weather.go) *)

\* getComparison has computed a sentence for this request
Compared ==
    /\ lastLog = "Detected temperature difference from yesterday"
    /\ pc \in {"round", "describe", "render", "done", "panicked"}

\* the lines getComparison logs when yesterday's data is unavailable
FailureLogs ==
    {"Couldn't get yesterday's data - querying failed.",
     "Couldn't get yesterday's data - reading JSON failed.",
     "Couldn't get yesterday's data - unmarshaling failed.",
     "API response found no data for yesterday :("}

HistoryFailed == lastLog \in FailureLogs

\* today's temperature as parsed, and yesterday's, both in Celsius
TodayC == ToCelsius(data[1].Main.Temperature, UnitOf(findReq))

YesterdayC == ToCelsius(hist[1].Main.Temperature, UnitOf(histReq))

\* the seven bands as the specification lists them: [lo, hi) in hundredths,
\* with the outer bands open-ended
BandTable ==
    {[lo |-> -10000000, hi |-> -500, adj |-> "much cooler"],
     [lo |-> -500, hi |-> -250, adj |-> "cooler"],
     [lo |-> -250, hi |-> -100, adj |-> "slightly cooler"],
     [lo |-> -100, hi |-> 100,  adj |-> "similar"],
     [lo |-> 100,  hi |-> 250,  adj |-> "slightly warmer"],
     [lo |-> 250,  hi |-> 500,  adj |-> "warmer"],
     [lo |-> 500,  hi |-> 10000000, adj |-> "much warmer"]}

InBand(d, b) == b.lo <= d /\ d < b.hi

BandSentence(b, subject, reference) ==
    IF b.adj = "similar"
    THEN subject \o "'s temperature is similar to " \o reference \o "."
    ELSE subject \o " is " \o b.adj \o " than " \o reference \o "."

\* the four hour buckets as the specification lists them
BucketTable ==
    {[hours |-> {h \in 0..23 : h < 5 \/ h > 21},
      subject |-> "Tonight", reference |-> "last night"],
     [hours |-> {h \in 0..23 : 5 <= h /\ h < 12},
      subject |-> "Today", reference |-> "yesterday"],
     [hours |-> {h \in 0..23 : 12 <= h /\ h < 18},
      subject |-> "This afternoon", reference |-> "yesterday"],
     [hours |-> {h \in 0..23 : 18 <= h /\ h <= 21},
      subject |-> "This evening", reference |-> "last night"]}

\* C1: the comparison sentence is the sentence of the one band [lo, hi) that
\* holds diff = today - yesterday (in Celsius); -5.0 is "cooler", 1.0 is
\* "slightly warmer"; six bands read "<subject> is <adjective> than
\* <reference>." and [-1, 1) reads "<subject>'s temperature is similar to
\* <reference>."
C1_SevenBands ==
    Compared =>
        LET d == TodayC - YesterdayC
            f == Flavor(Hour(data[1].Time))
            bands == {b \in BandTable : InBand(d, b)}
        IN  /\ Cardinality(bands) = 1
            /\ \A b \in bands :
                  datum.Comparison = BandSentence(b, f.today, f.yesterday)
            /\ d = -500 => datum.Comparison
                             = f.today \o " is cooler than " \o f.yesterday \o "."
            /\ d = 100 => datum.Comparison
                             = f.today \o " is slightly warmer than " \o f.yesterday \o "."

\* C1 witness: a difference of exactly -5.0 has been given the "cooler" sentence
C1_Witness ==
    /\ Compared
    /\ TodayC - YesterdayC = -500
    /\ datum.Comparison = "Today is cooler than yesterday."

\* the displayed temperature for t: the whole number r with r - 0.5 <= t < r + 0.5
IsHalfUp(r, t) == r % Scale = 0 /\ r - 50 <= t /\ t < r + 50

\* C3: when yesterday's data is unavailable (request, read, parse or empty
\* list) getComparison returns "", no step of getComparison ends the process,
\* and the handler goes on to round the temperature, join the description and
\* hand both, with the empty comparison, to the weather template.
C3_YesterdayUnavailable ==
    [][ /\ pc \in {"histQuery", "histRead", "histUnmarshal", "compare"} => alive'
        /\ HistoryFailed' => datum'.Comparison = ""
        /\ (~HistoryFailed /\ HistoryFailed') => pc' = "round"
        /\ (HistoryFailed /\ pc = "round") =>
              /\ pc' = "describe"
              /\ IsHalfUp(datum'.Main.Temperature, data[1].Main.Temperature)
        /\ (HistoryFailed /\ pc = "describe" /\ Len(datum.Weather) >= 1) =>
              /\ pc' = "render"
              /\ datum'.FullDescription = getFullWeatherDescription(data[1].Weather)
              /\ Len(datum'.FullDescription) >= 1
        /\ (HistoryFailed /\ response'.kind = "page") =>
              /\ response'.data.Comparison = ""
              /\ IsHalfUp(response'.data.Main.Temperature, data[1].Main.Temperature)
              /\ response'.data.FullDescription
                    = getFullWeatherDescription(data[1].Weather)
      ]_vars

\* C3 witness: the history list was empty and the page was rendered with the
\* rounded temperature and the description
C3_Witness ==
    /\ lastLog = "API response found no data for yesterday :("
    /\ alive
    /\ response.kind = "page"
    /\ response.data.Comparison = ""
    /\ data[1].Main.Temperature = 1620
    /\ response.data.Main.Temperature = 1600
    /\ response.data.FullDescription = "clear skies and light rain"

\* C6: the hour of today's timestamp lies in exactly one of the four buckets
\* and the sentence uses that bucket's subject and reference; hours 4 and 22
\* are "Tonight", 5 is "Today", 17 "This afternoon", 21 "This evening".
C6_HourBuckets ==
    Compared =>
        LET h == Hour(data[1].Time)
            d == Diff(data[1].Main.Temperature, hist[1].Main.Temperature)
            buckets == {b \in BucketTable : h \in b.hours}
        IN  /\ Cardinality(buckets) = 1
            /\ \A b \in buckets :
                  datum.Comparison = ComparisonSentence(d, b.subject, b.reference)
            /\ h \in {4, 22} =>
                  datum.Comparison = ComparisonSentence(d, "Tonight", "last night")
            /\ h = 5 => datum.Comparison = ComparisonSentence(d, "Today", "yesterday")
            /\ h = 17 =>
                  datum.Comparison = ComparisonSentence(d, "This afternoon", "yesterday")
            /\ h = 21 =>
                  datum.Comparison = ComparisonSentence(d, "This evening", "last night")

\* C6 witness: hour 21 was framed as "This evening" / "last night"
C6_Witness ==
    /\ Compared
    /\ Hour(data[1].Time) = 21
    /\ datum.Comparison = "This evening's temperature is similar to last night."

\* the end-to-end scenario: 16.2 C with the single condition 800 at hour 14,
\* yesterday 10.0 C, page rendered
Scenario ==
    /\ response.kind = "page"
    /\ TodayC = 1620
    /\ Len(data[1].Weather) = 1
    /\ data[1].Weather[1].Id = 800
    /\ Len(hist) >= 1
    /\ YesterdayC = 1000
    /\ Hour(data[1].Time) = 14

\* C7 as stated: the scenario renders 'clear skies', 16 and
\* 'This afternoon is warmer than yesterday.'
C7_Original ==
    Scenario =>
        /\ response.data.FullDescription = "clear skies"
        /\ response.data.Main.Temperature = 1600
        /\ response.data.Comparison = "This afternoon is warmer than yesterday."

\* C7 (amended): the scenario renders 'clear skies', 16 and, the difference
\* 6.2 being in the band [5, +inf) of the edges 1/2.5/5,
\* 'This afternoon is much warmer than yesterday.'
C7_EndToEnd ==
    Scenario =>
        /\ response.data.FullDescription = "clear skies"
        /\ response.data.Main.Temperature = 1600
        /\ response.data.Comparison = "This afternoon is much warmer than yesterday."

\* C7 witness: the scenario has been rendered
C7_Witness ==
    /\ Scenario
    /\ response.data.Comparison = "This afternoon is much warmer than yesterday."

\* the handler has rounded the temperature of this request
RoundedDone ==
    \/ pc \in {"describe", "render", "panicked"}
    \/ response.kind = "page"

\* C8: the displayed temperature r is floor(t + 0.5) of the parsed t, that is
\* the whole number with r - 0.5 <= t < r + 0.5, also for negative t; an exact
\* half goes to the larger neighbour; 15.5 gives 16 and 15.49 gives 15.
C8_RoundHalfUp ==
    RoundedDone =>
        LET t == data[1].Main.Temperature
            r == datum.Main.Temperature
        IN  /\ IsHalfUp(r, t)
            /\ t % Scale = 50 => r = t + 50
            /\ t = 1550 => r = 1600
            /\ t = 1549 => r = 1500
            /\ response.kind = "page" => response.data.Main.Temperature = r

\* C8 witness: 12.5, halfway between 12 and 13, is displayed as 13
C8_Witness ==
    /\ response.kind = "page"
    /\ data[1].Main.Temperature = 1250
    /\ response.data.Main.Temperature = 1300

\* d with the three fields the handler derives taken from e
WithDerived(d, e) ==
    [d EXCEPT !.Main.Temperature = e.Main.Temperature,
              !.Comparison = e.Comparison,
              !.FullDescription = e.FullDescription]

\* C9: from the parsed observation to the value handed to the template only
\* the temperature, the comparison and the description change; name, city id,
\* timestamp, sunrise, sunset, country, wind speed, humidity, pressure and the
\* condition list are those of the parsed observation, with or without
\* yesterday's data.
C9_PassThrough ==
    /\ pc \in {"histQuery", "histRead", "histUnmarshal", "compare", "round",
               "describe", "render", "panicked"}
          => WithDerived(data[1], datum) = datum
    /\ response.kind = "page" =>
          /\ WithDerived(data[1], response.data) = response.data
          /\ response.data.Name = data[1].Name
          /\ response.data.CityId = data[1].CityId
          /\ response.data.Time = data[1].Time
          /\ response.data.Sys = data[1].Sys
          /\ response.data.Wind = data[1].Wind
          /\ response.data.Main.Humidity = data[1].Main.Humidity
          /\ response.data.Main.Pressure = data[1].Main.Pressure
          /\ response.data.Weather = data[1].Weather

\* C9 witness: a page whose three derived fields differ from the parsed
\* observation and whose pressure and name are the parsed ones
C9_Witness ==
    /\ response.kind = "page"
    /\ response.data.Main.Temperature # data[1].Main.Temperature
    /\ response.data.Comparison # ""
    /\ response.data.FullDescription # ""
    /\ response.data.Main.Pressure = 1012
    /\ response.data.Name = "London"

-----------------------------------------------------------------------------
(* Direct calls of getWeatherDescription and getFullWeatherDescription *)

\* longest condition list handed to getFullWeatherDescription directly
MaxDescs == 3

\* condition codes of the API's vocabulary that the switch does not list
OtherCodes == {500, 501, 600, 701, 741, 802, 957}

\* the condition codes the switch lists
ListedCodes ==
    {200, 230, 201, 231, 202, 232, 210, 211, 212, 221, 300, 310, 301, 311,
     302, 312, 313, 321, 502, 314, 521, 520, 522, 531, 620, 621, 622, 731,
     781, 800, 801, 803, 804, 900, 901, 902, 962, 903, 904, 905, 906, 951,
     952, 953, 954, 955, 956, 958, 959, 960, 961}

\* free-text descriptions the API supplies; "" is an empty or absent one
Descriptions == {"", "light rain", "mist"}

\* conditions of the lists: phrases with " and " and ", " inside, a plain one
\* and a fallback
ListConds == {WeatherDesc(800, "sky is clear", "01d"),
              WeatherDesc(621, "shower sleet", "13d"),
              WeatherDesc(958, "gale", "50d"),
              WeatherDesc(500, "light rain", "10n")}

DescArgs ==
    {<<WeatherDesc(id, d, "01d")>> : id \in ListedCodes \cup OtherCodes,
                                      d \in Descriptions}
        \cup SeqsUpTo(ListConds, MaxDescs)

InitDesc ==
    /\ alive = TRUE
    /\ pc = "call"
    /\ findReq = NoRequest
    /\ histReq = NoRequest
    /\ data = <<>>
    /\ datum = ZeroWeatherData
    /\ hist = <<>>
    /\ clock = 0
    /\ lastLog = ""
    /\ response = NoResponse
    /\ arg \in DescArgs
    /\ ret = ""
    /\ path = ""
    /\ city = ""
    /\ templates = ParsedTemplates
    /\ parked = IdleLocals

CallGetWeatherDescription ==
    /\ pc = "call"
    /\ Len(arg) = 1
    /\ ret' = getWeatherDescription(arg[1])
    /\ pc' = "returnedDesc"
    /\ UNCHANGED <<alive, findReq, histReq, data, datum, hist, clock, lastLog,
                   response, arg, path, city, templates, parked>>

CallGetFullWeatherDescription ==
    /\ pc = "call"
    /\ IF FullDescriptionPanics(arg)
       THEN /\ pc' = "panicked"
            /\ UNCHANGED ret
       ELSE /\ ret' = getFullWeatherDescription(arg)
            /\ pc' = "returnedFull"
    /\ UNCHANGED <<alive, findReq, histReq, data, datum, hist, clock, lastLog,
                   response, arg, path, city, templates, parked>>

NextDesc ==
    \/ CallGetWeatherDescription
    \/ CallGetFullWeatherDescription

SpecDesc == InitDesc /\ [][NextDesc]_vars

\* C4: a listed code gets one fixed phrase whatever the free-text description
\* is (the phrase is the one the same code gets with any other description,
\* 800 is "clear skies", 221 "ragged thunderstorms", 804 "overcast skies",
\* 314, 502 and 521 share "heavy rain"); a code that is not listed gets the
\* description unchanged.
C4_TableOrFallback ==
    pc = "returnedDesc" =>
        LET w == arg[1]
        IN  /\ w.Id \in ListedCodes =>
                 /\ \A d \in Descriptions :
                       ret = getWeatherDescription(WeatherDesc(w.Id, d, w.Icon))
                 /\ ret \notin Descriptions
            /\ w.Id \notin ListedCodes => ret = w.Description
            /\ w.Id = 800 => ret = "clear skies"
            /\ w.Id = 221 => ret = "ragged thunderstorms"
            /\ w.Id = 804 => ret = "overcast skies"
            /\ w.Id \in {314, 502, 521} => ret = "heavy rain"

\* C4 witness: a listed code with a free-text description got the fixed
\* phrase, not the description
C4_Witness ==
    /\ pc = "returnedDesc"
    /\ arg[1].Id = 314
    /\ arg[1].Description = "light rain"
    /\ ret = "heavy rain"

\* the list of phrases written out from the left: "a", "a and b", "a, b and c"
RECURSIVE EnglishList(_)
EnglishList(p) ==
    IF Len(p) = 1 THEN p[1]
    ELSE IF Len(p) = 2 THEN p[1] \o " and " \o p[2]
    ELSE p[1] \o ", " \o EnglishList(Tail(p))

C10_NeverEmpty == pc = "returnedDesc" => Len(ret) >= 1

-----------------------------------------------------------------------------
(* The wall-clock variant of the program (src/unnamed/part_000) *)

getTodayFlavorText(hour) ==
    IF hour < 5 \/ hour > 21 THEN "Tonight"
    ELSE IF hour >= 9 /\ hour < 12 THEN "Today"
    ELSE IF hour >= 12 /\ hour <= 17 THEN "This afternoon"
    ELSE "This evening"

getYesterdayFlavorText(hour) ==
    IF hour < 5 \/ hour > 21 THEN "last night" ELSE "yesterday"

\* the bands of part_000, with its adjectives
ComparisonSentenceClock(diff, tft, yft) ==
    IF diff < -500 THEN tft \o " is much colder than " \o yft \o "."
    ELSE IF diff < -250 THEN tft \o " is colder than " \o yft \o "."
    ELSE IF diff < -100 THEN tft \o " is cooler than " \o yft \o "."
    ELSE IF diff < 100 THEN tft \o "'s temperature is similar to " \o yft \o "."
    ELSE IF diff < 250 THEN tft \o " is warmer than " \o yft \o "."
    ELSE IF diff < 500 THEN tft \o " is hotter than " \o yft \o "."
    ELSE tft \o " is much hotter than " \o yft \o "."

\* data.List[min(hour, len(data.List)-1)], as a 1-based index
YesterdayIndex(hour, list) == min(hour, Len(list) - 1) + 1

\* lines 241-261 of part_000's getComparison
ComparisonClock(today, hour, list) ==
    LET d == list[YesterdayIndex(hour, list)]
        yesterday == d.Main.Temperature - KelvinOffset
        diff == today - yesterday
    IN  ComparisonSentenceClock(diff, getTodayFlavorText(hour),
                                getYesterdayFlavorText(hour))

\* part_000's getFullWeatherDescription: strings.Join(descs, ", ")
getFullWeatherDescriptionClock(weather) == Join(Descs(weather), ", ")

\* part_000's WeatherData has no CityId and no Time: both stay zero
FindListsClock(req) ==
    {<<>>} \cup
    {<<[Observation(InUnit(c, UnitOf(req)), 0, w) EXCEPT !.CityId = 0]>> :
        c \in TodayCelsius, w \in SeqsUpTo(HandlerConds, MaxConds)}

\* getCity writes http.NotFound for an invalid path and handleWeather returns
GetCityClock ==
    /\ alive /\ pc = "idle"
    /\ \E p \in Paths :
          /\ path' = p
          /\ city' = getCity(p).city
          /\ IF getCity(p).err
             THEN /\ response' = [kind |-> "notfound", target |-> "", code |-> 404,
                                  data |-> ZeroWeatherData]
                  /\ pc' = "done"
             ELSE /\ pc' = "query"
                  /\ UNCHANGED response
    /\ UNCHANGED <<alive, findReq, histReq, data, datum, hist, clock, lastLog,
                   arg, templates, parked, ret>>

UnmarshalTodayClock ==
    /\ alive /\ pc = "unmarshal"
    /\ \/ \E list \in FindListsClock(findReq) :
             /\ data' = list
             /\ pc' = "check"
             /\ UNCHANGED <<alive, findReq, histReq, datum, hist, clock,
                            lastLog, response, arg, path, city, templates, parked, ret>>
       \/ Fatal

CheckListClock ==
    /\ alive /\ pc = "check"
    /\ IF Len(data) = 0
       THEN /\ response' = Redirect("/notfound")
            /\ pc' = "done"
            /\ UNCHANGED datum
       ELSE /\ datum' = data[1]
            /\ pc' = "histQuery"
            /\ UNCHANGED response
    /\ UNCHANGED <<alive, findReq, histReq, data, hist, clock, lastLog, arg, path, city, templates, parked, ret>>

\* getComparison: hour = time.Now().Hour(), then http.Get of the history
\* endpoint with units=metric
QueryHistoryClock ==
    /\ alive /\ pc = "histQuery"
    /\ clock' \in 0..23
    /\ histReq' = [endpoint |-> "history", units |-> "metric"]
    /\ \/ /\ pc' = "histRead"
          /\ UNCHANGED <<datum, lastLog>>
       \/ ReturnComparison("", "Couldn't get yesterday's data - querying failed.")
    /\ UNCHANGED <<alive, findReq, data, hist, response, arg, path, city, templates, parked, ret>>

CompareClock ==
    /\ alive /\ pc = "compare"
    /\ ReturnComparison(ComparisonClock(datum.Main.Temperature, clock, hist),
                        "Detected temperature difference from yesterday")
    /\ UNCHANGED <<alive, findReq, histReq, data, hist, clock, response, arg, path, city, templates, parked, ret>>

DescribeClock ==
    /\ alive /\ pc = "describe"
    /\ datum' = [datum EXCEPT
                   !.FullDescription = getFullWeatherDescriptionClock(datum.Weather)]
    /\ pc' = "render"
    /\ UNCHANGED <<alive, findReq, histReq, data, hist, clock, lastLog,
                   response, arg, path, city, templates, parked, ret>>

NextClock ==
    \/ GetCityClock
    \/ QueryToday
    \/ ReadToday
    \/ UnmarshalTodayClock
    \/ CheckListClock
    \/ QueryHistoryClock
    \/ ReadHistory
    \/ UnmarshalHistory
    \/ CompareClock
    \/ RoundTemperature
    \/ DescribeClock
    \/ Render
    \/ Finish

SpecClock == Init /\ [][NextClock]_vars

-----------------------------------------------------------------------------
(* Unit normalization *)

\* the variant that asks the history endpoint for units=metric is part_000
YesterdayEntry ==
    IF histReq.units = "metric" THEN hist[YesterdayIndex(clock, hist)] ELSE hist[1]

\* the adjectives of each band, in both attested wordings
BandWords ==
    [x \in {b.adj : b \in BandTable} |->
        CASE x = "much cooler" -> {"much cooler", "much colder"}
          [] x = "cooler" -> {"cooler", "colder"}
          [] x = "slightly cooler" -> {"slightly cooler", "cooler"}
          [] x = "similar" -> {"similar"}
          [] x = "slightly warmer" -> {"slightly warmer", "warmer"}
          [] x = "warmer" -> {"warmer", "hotter"}
          [] x = "much warmer" -> {"much warmer", "much hotter"}]

Subjects == {"Tonight", "Today", "This afternoon", "This evening"}

References == {"last night", "yesterday"}

\* the sentences that say band b
BandSentences(b) ==
    {BandSentence([b EXCEPT !.adj = a], s, r) :
        a \in BandWords[b.adj], s \in Subjects, r \in References}

\* C2: the sentence is that of the band of (today in Celsius) - (yesterday in
\* Celsius), each temperature converted from the unit it arrived in: 273.15
\* is subtracted from a Kelvin value and nothing from a Celsius value.  So
\* 20 C against 20 C is "similar", 30 C against 20 C "much warmer/hotter".
C2_NormalizedOncePerUnit ==
    Compared =>
        LET d == TodayC - ToCelsius(YesterdayEntry.Main.Temperature, UnitOf(histReq))
        IN  \A b \in BandTable : InBand(d, b) => datum.Comparison \in BandSentences(b)

-----------------------------------------------------------------------------
(* Failures of today's observation, and the order of the handler's steps *)

\* the request ended without today's observation: the process exited at the
\* find request, its body or its JSON, or the handler returned without a page
TodayFailed ==
    \/ ~alive /\ pc \in {"query", "read", "unmarshal"}
    \/ pc = "done" /\ response.kind # "page"

\* C11: every failure to obtain today's observation (invalid path, failed
\* request, unreadable body, unparsable JSON, empty list) ends the request
\* with the 'city not found' redirect and leaves the server running.
C11_TodayFailureRedirects ==
    TodayFailed => /\ alive
                   /\ response = Redirect("/notfound.html")

\* the steps that derive the narrative and render it
DerivationSteps ==
    {"histQuery", "histRead", "histUnmarshal", "compare", "round", "describe",
     "render", "panicked"}

\* C12: the history request, the comparison, the rounding, the description
\* and the rendering happen only after the path was validated and today's
\* list was fetched, parsed and found non-empty; with an invalid path no
\* request to the weather API is made.
C12_DerivationAfterToday ==
    /\ (\/ pc \in DerivationSteps
        \/ histReq # NoRequest
        \/ datum # ZeroWeatherData
        \/ response.kind \in {"page", "error"})
          => /\ FindStringSubmatch(path) # <<>>
             /\ city = FindStringSubmatch(path)[3]
             /\ findReq.endpoint = "find"
             /\ Len(data) >= 1
    /\ FindStringSubmatch(path) = <<>> =>
          /\ findReq = NoRequest
          /\ histReq = NoRequest
          /\ pc \in {"idle", "done"}

\* C12 witness: an invalid path was redirected without any API request
C12_Witness ==
    /\ path = "/weather/Sao_Paulo"
    /\ pc = "done"
    /\ response = Redirect("/notfound.html")
    /\ findReq = NoRequest
    /\ histReq = NoRequest

\* C16: the comparison is that of the band of (today as received - yesterday),
\* not of the rounded temperature: when getComparison runs the temperature is
\* still the parsed one, and the page carries the rounded temperature next to
\* the sentence of the unrounded difference; 10.6 C against 10.0 C is
\* "similar", although 11 - 10 would be "slightly warmer".
C16_ComparisonBeforeRounding ==
    /\ pc \in {"histQuery", "histRead", "histUnmarshal", "compare"} =>
          datum.Main.Temperature = data[1].Main.Temperature
    /\ (response.kind = "page" /\ Len(hist) >= 1) =>
          LET d == TodayC - YesterdayC
              f == Flavor(Hour(data[1].Time))
          IN  /\ IsHalfUp(response.data.Main.Temperature, data[1].Main.Temperature)
              /\ \A b \in BandTable :
                    InBand(d, b) =>
                       response.data.Comparison
                          = BandSentence(b, f.today, f.yesterday)
              /\ (TodayC = 1060 /\ YesterdayC = 1000) =>
                    response.data.Comparison
                       = f.today \o "'s temperature is similar to "
                                 \o f.yesterday \o "."

\* C16 witness: 10.6 C against 10.0 C was rendered as 11 and "similar", while
\* the rounded difference lies in the band [1, 2.5)
C16_Witness ==
    /\ response.kind = "page"
    /\ Len(hist) >= 1
    /\ TodayC = 1060
    /\ YesterdayC = 1000
    /\ response.data.Main.Temperature = 1100
    /\ response.data.Main.Temperature - YesterdayC = 100
    /\ response.data.Comparison = "Today's temperature is similar to yesterday."

-----------------------------------------------------------------------------
(* The wall-clock variant: flavor texts and the history index *)

\* C14: for every hour getTodayFlavorText and getYesterdayFlavorText form the
\* pair of the hour's bucket; the reference is "last night" exactly when the
\* subject is "Tonight" or "This evening"; "Today" is the subject for the
\* hours 5..11 and "This evening" only for 18..21.
C14_FlavorPairs ==
    (pc = "compare" \/ Compared) =>
        LET s == getTodayFlavorText(clock)
            r == getYesterdayFlavorText(clock)
        IN  /\ \E b \in BucketTable :
                  clock \in b.hours /\ s = b.subject /\ r = b.reference
            /\ r = "last night" <=> s \in {"Tonight", "This evening"}
            /\ clock \in 5..11 => s = "Today"
            /\ s = "This evening" => clock \in 18..21

\* C17: when the entry is read the list is not empty and the index
\* min(hour, len(list)-1) lies in 0..len(list)-1; an empty list returns ""
\* before the entry is read.
C17_IndexInRange ==
    /\ pc = "compare" =>
          /\ Len(hist) >= 1
          /\ min(clock, Len(hist) - 1) \in 0..(Len(hist) - 1)
          /\ YesterdayIndex(clock, hist) \in 1..Len(hist)
    /\ lastLog = "API response found no data for yesterday :(" =>
          /\ Len(hist) = 0
          /\ pc # "compare"
          /\ datum.Comparison = ""

\* C17 witness: at hour 23 the last entry of a two-entry list is about to be read
C17_Witness ==
    /\ pc = "compare"
    /\ clock = 23
    /\ Len(hist) = 2
    /\ YesterdayIndex(clock, hist) = 2

-----------------------------------------------------------------------------
(* The day/night-flag variant of the program (src/unnamed/part_001) *)

\* strings.Contains(s, substr)
Contains(s, substr) ==
    \E i \in 1..(Len(s) - Len(substr) + 1) :
        SubSeq(s, i, i + Len(substr) - 1) = substr

\* the flag taken from the icon's night letter instead
isDaytimeNotNight(weather) == ~Contains(weather.Icon, "n")

isDaytime(weather) == Contains(weather.Icon, "d")

\* lines 268-302 of part_001's getComparison; hour is not declared in this
\* version and stands for any hour of the day
ComparisonFlag(today, todayIsDay, hour, list) ==
    LET d == list[YesterdayIndex(hour, list)]
        yesterday == d.Main.Temperature - KelvinOffset
        diff == today - yesterday
        tft == IF todayIsDay THEN "Today" ELSE "Tonight"
        yft == IF todayIsDay THEN "yesterday" ELSE "last night"
    IN  ComparisonSentence(diff, tft, yft)

\* the conditions of today's observation: a day icon, a night icon, no icon
FlagConds == {WeatherDesc(800, "sky is clear", "01d"),
              WeatherDesc(500, "light rain", "10n"),
              WeatherDesc(741, "fog", "")}

\* today's temperatures in Celsius and observation times (03:00 and 14:00)
FlagCelsius == {1000, 1620}

FlagTimes == {1382400000 + h * 3600 : h \in {3, 14}}

FindListsFlag(req) ==
    {<<>>} \cup
    {<<Observation(InUnit(c, UnitOf(req)), t, w)>> :
        c \in FlagCelsius, t \in FlagTimes, w \in SeqsUpTo(FlagConds, MaxConds)}

UnmarshalTodayFlag ==
    /\ alive /\ pc = "unmarshal"
    /\ \/ \E list \in FindListsFlag(findReq) :
             /\ data' = list
             /\ pc' = "check"
             /\ UNCHANGED <<alive, findReq, histReq, datum, hist, clock,
                            lastLog, response, arg, path, city, templates, parked, ret>>
       \/ Fatal

\* the arguments of getComparison are evaluated first: datum.Weather[0] panics
\* on an empty condition list and net/http recovers; then the history endpoint
\* is queried with units=metric
QueryHistoryFlag ==
    /\ alive /\ pc = "histQuery"
    /\ IF Len(datum.Weather) = 0
       THEN /\ pc' = "panicked"
            /\ UNCHANGED <<histReq, clock, datum, lastLog>>
       ELSE /\ clock' \in 0..23
            /\ histReq' = [endpoint |-> "history", units |-> "metric"]
            /\ \/ /\ pc' = "histRead"
                  /\ UNCHANGED <<datum, lastLog>>
               \/ ReturnComparison("", "Couldn't get yesterday's data - querying failed.")
    /\ UNCHANGED <<alive, findReq, data, hist, response, arg, path, city, templates, parked, ret>>

CompareFlag ==
    /\ alive /\ pc = "compare"
    /\ ReturnComparison(ComparisonFlag(datum.Main.Temperature,
                                       isDaytime(datum.Weather[1]), clock, hist),
                        "Detected temperature difference from yesterday")
    /\ UNCHANGED <<alive, findReq, histReq, data, hist, clock, response, arg, path, city, templates, parked, ret>>

NextFlag ==
    \/ GetCityClock
    \/ QueryToday
    \/ ReadToday
    \/ UnmarshalTodayFlag
    \/ CheckListClock
    \/ QueryHistoryFlag
    \/ ReadHistory
    \/ UnmarshalHistory
    \/ CompareFlag
    \/ RoundTemperature
    \/ Describe
    \/ Render
    \/ Finish

SpecFlag == Init /\ [][NextFlag]_vars

\* the icon of today's first condition has the letter d in it
FirstIconHasD ==
    LET icon == data[1].Weather[1].Icon
    IN  \E i \in 1..Len(icon) : SubSeq(icon, i, i) = "d"

\* the sentences of every band with the given subject and reference
PairSentences(subject, reference) ==
    {BandSentence(b, subject, reference) : b \in BandTable}

\* C15: the sentence uses ("Today", "yesterday") when the icon of today's
\* first condition contains 'd' and ("Tonight", "last night") otherwise; no
\* other subject or reference and no mixed pair appears in it.
C15_TwoFlagPairs ==
    Compared =>
        /\ datum.Comparison
              \in IF FirstIconHasD THEN PairSentences("Today", "yesterday")
                  ELSE PairSentences("Tonight", "last night")
        /\ \A s \in Subjects, r \in References :
              <<s, r>> \notin {<<"Today", "yesterday">>, <<"Tonight", "last night">>}
                 => datum.Comparison \notin PairSentences(s, r)

\* C15 witness: a night icon on an observation taken at 14:00 gave "Tonight"
\* and "last night"
C15_Witness ==
    /\ Compared
    /\ data[1].Weather[1].Icon = "10n"
    /\ Hour(data[1].Time) = 14
    /\ clock = 14
    /\ datum.Comparison = "Tonight is much warmer than last night."

-----------------------------------------------------------------------------
(* Two requests in flight: net/http runs each handleWeather call on its own
   goroutine.  The variables pc .. city are the locals of the goroutine that
   is running, parked holds the locals of the other one; the process (alive)
   and the package-level templates are common to both. *)

\* the locals of the running goroutine
Locals ==
    [pc |-> pc, findReq |-> findReq, histReq |-> histReq, data |-> data,
     datum |-> datum, hist |-> hist, clock |-> clock, lastLog |-> lastLog,
     response |-> response, path |-> path, city |-> city]

\* the switch with datum declared at package level: one datum for both
YieldSharedDatum ==
    /\ alive
    /\ parked' = Locals
    /\ pc' = parked.pc
    /\ findReq' = parked.findReq
    /\ histReq' = parked.histReq
    /\ data' = parked.data
    /\ hist' = parked.hist
    /\ clock' = parked.clock
    /\ lastLog' = parked.lastLog
    /\ response' = parked.response
    /\ path' = parked.path
    /\ city' = parked.city
    /\ UNCHANGED <<alive, datum, templates, arg, ret>>

\* the scheduler switches to the other goroutine between two steps
Yield ==
    /\ alive
    /\ parked' = Locals
    /\ pc' = parked.pc
    /\ findReq' = parked.findReq
    /\ histReq' = parked.histReq
    /\ data' = parked.data
    /\ datum' = parked.datum
    /\ hist' = parked.hist
    /\ clock' = parked.clock
    /\ lastLog' = parked.lastLog
    /\ response' = parked.response
    /\ path' = parked.path
    /\ city' = parked.city
    /\ UNCHANGED <<alive, templates, arg, ret>>

\* the answers of the two endpoints while two requests are in flight:
\* 10.6 C or 16.2 C at 14:00 with one or two conditions; 10 C or 20 C yesterday
ConcFindLists(req) ==
    {<<>>} \cup
    {<<Observation(InUnit(c, UnitOf(req)), 1382400000 + 14 * 3600, w)>> :
        c \in {1060, 1620},
        w \in {<<WeatherDesc(800, "sky is clear", "01d")>>,
               <<WeatherDesc(500, "light rain", "10n"),
                 WeatherDesc(800, "sky is clear", "01d")>>}}

ConcHistoryLists(req) ==
    {<<>>} \cup
    {<<Observation(InUnit(c, UnitOf(req)), 0, <<>>)>> : c \in YesterdayCelsius}

UnmarshalTodayConc ==
    /\ alive /\ pc = "unmarshal"
    /\ \/ \E list \in ConcFindLists(findReq) :
             /\ data' = list
             /\ pc' = "check"
             /\ UNCHANGED <<alive, findReq, histReq, datum, hist, clock,
                            lastLog, response, arg, path, city, templates, parked, ret>>
       \/ Fatal

UnmarshalHistoryConc ==
    /\ alive /\ pc = "histUnmarshal"
    /\ \/ /\ ReturnComparison("", "Couldn't get yesterday's data - unmarshaling failed.")
          /\ UNCHANGED hist
       \/ \E list \in ConcHistoryLists(histReq) :
             /\ hist' = list
             /\ IF Len(list) = 0
                THEN ReturnComparison("", "API response found no data for yesterday :(")
                ELSE /\ pc' = "compare"
                     /\ UNCHANGED <<datum, lastLog>>
    /\ UNCHANGED <<alive, findReq, histReq, data, clock, response, arg, path, city, templates, parked, ret>>

NextConc ==
    \/ GetCity
    \/ QueryToday
    \/ ReadToday
    \/ UnmarshalTodayConc
    \/ CheckList
    \/ QueryHistory
    \/ ReadHistory
    \/ UnmarshalHistoryConc
    \/ Compare
    \/ RoundTemperature
    \/ Describe
    \/ Render
    \/ Finish
    \/ Yield

SpecConc == Init /\ [][NextConc]_vars

\* the narrative the request with locals l produces when it runs alone with
\* the same answers of the two endpoints
NarrativeAlone(l) ==
    LET t == l.data[1]
    IN  [t EXCEPT
           !.Comparison =
               IF l.lastLog = "Detected temperature difference from yesterday"
               THEN Comparison(t, l.hist) ELSE "",
           !.Main.Temperature = Floor(t.Main.Temperature + 50),
           !.FullDescription = getFullWeatherDescription(t.Weather)]

\* the request with locals l works on its own observation and renders its own
\* narrative
OwnNarrative(l) ==
    /\ l.pc \in {"histQuery", "histRead", "histUnmarshal", "compare", "round",
                 "describe", "render"} =>
          /\ Len(l.data) >= 1
          /\ l.datum.Weather = l.data[1].Weather
          /\ l.datum.Time = l.data[1].Time
          /\ l.datum.Main.Temperature
                \in {l.data[1].Main.Temperature,
                     Floor(l.data[1].Main.Temperature + 50)}
    /\ l.response.kind = "page" =>
          /\ Len(l.data) >= 1
          /\ l.response.data = NarrativeAlone(l)

\* C13: however two requests are interleaved, each renders the narrative
\* (rounded temperature, description, comparison) it produces alone from its
\* own today and yesterday answers, and the package-level templates are never
\* written.
C13_NoSharedState ==
    /\ OwnNarrative(Locals)
    /\ OwnNarrative(parked)
    /\ templates = ParsedTemplates

\* C13 witness: two requests have rendered different narratives and neither
\* has returned yet
C13_Witness ==
    /\ pc = "done" /\ parked.pc = "done"
    /\ response.kind = "page" /\ parked.response.kind = "page"
    /\ response.data.Main.Temperature = 1100
    /\ parked.response.data.Main.Temperature = 1600
    /\ response.data.Comparison = "This afternoon's temperature is similar to yesterday."
    /\ parked.response.data.Comparison = "This afternoon is cooler than yesterday."
    /\ response.data.FullDescription = "clear skies"
    /\ parked.response.data.FullDescription = "light rain and clear skies"

====
